---- MODULE Spec2Model ----
(***************************************************************************)
(* rank_run.c: an MPI tool that runs one shell command or script per rank. *)
(*                                                                         *)
(* Strings are sequences of one-character strings.  One process per rank;  *)
(* pc[r] is the position of rank r in main().  The two buffer sizes of the *)
(* program are scaled down (5000 -> MAX_LINE, 5000 -> MAX_RANKS) so that   *)
(* lines that fill the line buffer and groups larger than the roster array *)
(* are inside the explored inputs.                                         *)
(***************************************************************************)
EXTENDS Integers, Sequences, FiniteSets, TLC

\* ------------------------------------------------------------------ sizes
\* #define MAX_LINE 5000, scaled: a buffer of MAX_LINE chars holds a string
\* of at most MAX_LINE - 1 characters.
MAX_LINE == 8
\* #define MAX_RANKS 5000, scaled: commands[] has slots 0 .. MAX_RANKS - 1.
MAX_RANKS == 2

\* Largest group size explored: one rank more than commands[] has slots.
MaxSize == MAX_RANKS + 1
\* Largest number of lines of a roster file.
MaxLines == 3
\* Group size of the pattern-resolution specification (ranks of two digits).
ResolveSize == 12

\* ---------------------------------------------------------------- strings
Min(a, b) == IF a < b THEN a ELSE b

\* The characters trim() removes.
IsSpace(c) == c \in {" ", "\t", "\n", "\r"}

\* trim(), first loop: p skips the leading white space.
RECURSIVE SkipLeading(_)
SkipLeading(s) ==
    IF s # <<>> /\ IsSpace(Head(s)) THEN SkipLeading(Tail(s)) ELSE s

\* trim(), second loop: trailing white space is overwritten with '\0'.
RECURSIVE StripTrailing(_)
StripTrailing(s) ==
    IF s # <<>> /\ IsSpace(s[Len(s)])
    THEN StripTrailing(SubSeq(s, 1, Len(s) - 1))
    ELSE s

trim(s) == StripTrailing(SkipLeading(s))

\* snprintf(buf, sizeof(buf), ...) with sizeof(buf) = MAX_LINE: the output is
\* cut to MAX_LINE - 1 characters.
Snprintf(s) == SubSeq(s, 1, Min(Len(s), MAX_LINE - 1))

Digit(d) == CASE d = 0 -> "0" [] d = 1 -> "1" [] d = 2 -> "2" [] d = 3 -> "3"
              [] d = 4 -> "4" [] d = 5 -> "5" [] d = 6 -> "6" [] d = 7 -> "7"
              [] d = 8 -> "8" [] d = 9 -> "9"

\* printf's %d of a rank (never negative).
RECURSIVE Decimal(_)
Decimal(n) == IF n < 10 THEN <<Digit(n)>> ELSE Decimal(n \div 10) \o <<Digit(n % 10)>>

\* strchr(arg, '*'): the index of the first '*', 0 when there is none.
RECURSIVE StrchrFrom(_, _)
StrchrFrom(s, i) ==
    IF i > Len(s) THEN 0 ELSE IF s[i] = "*" THEN i ELSE StrchrFrom(s, i + 1)

\* strrchr in place of strchr: the last '*'.
StrchrLast(s) ==
    IF \E i \in 1 .. Len(s) : s[i] = "*"
    THEN CHOOSE i \in 1 .. Len(s) : s[i] = "*" /\ \A j \in i + 1 .. Len(s) : s[j] # "*"
    ELSE 0

Strchr(s) == StrchrFrom(s, 1)

\* snprintf(scriptfile, sizeof(scriptfile), "%.*s%d%s", star-arg, arg, rank, star+1)
ResolveScript(a, r) ==
    LET star == Strchr(a)
    IN  Snprintf(SubSeq(a, 1, star - 1) \o Decimal(r) \o SubSeq(a, star + 1, Len(a)))

\* snprintf(mycmd, sizeof(mycmd), "bash %s", scriptfile)
BashCmd(path) == Snprintf(<<"b", "a", "s", "h", " ">> \o path)

\* ------------------------------------------------------------ roster file
\* The lines a roster file is made of (without their newline): a plain
\* command, a command wrapped in white space (CR LF ending), an indented
\* comment, an empty line and a command line of MAX_LINE characters.
RawLines ==
    { <<"a">>,
      <<" ", "c", " ", "d", "\t", "\r">>,
      <<" ", "#", "x">>,
      <<>>,
      <<"e", "e", "e", "e", "e", "e", "e", "f">> }

RECURSIVE SeqsUpTo(_, _)
SeqsUpTo(S, n) ==
    IF n = 0 THEN { <<>> }
    ELSE LET shorter == SeqsUpTo(S, n - 1)
         IN  shorter \cup { Append(q, x) : q \in shorter, x \in S }

\* The roster files explored: any sequence of at most MaxLines raw lines.
Rosters == SeqsUpTo(RawLines, MaxLines)

\* The bytes of the file: every line followed by its newline.
RECURSIVE FileBytes(_)
FileBytes(ls) ==
    IF ls = <<>> THEN <<>> ELSE Head(ls) \o <<"\n">> \o FileBytes(Tail(ls))

RECURSIVE NewlineFrom(_, _)
NewlineFrom(s, i) ==
    IF i > Len(s) THEN 0 ELSE IF s[i] = "\n" THEN i ELSE NewlineFrom(s, i + 1)

\* fgets(buf, MAX_LINE, fp) on the unread bytes: the number of characters it
\* stores, at most MAX_LINE - 1, stopping after a newline (0: end of file,
\* fgets returns NULL and leaves buf alone).
FgetsLen(rest) ==
    LET nl == NewlineFrom(rest, 1)
    IN  Min(MAX_LINE - 1, IF nl = 0 THEN Len(rest) ELSE nl)

EmptyCommands == [i \in 0 .. MAX_RANKS - 1 |-> <<>>]
NoSource == [i \in 0 .. MAX_RANKS - 1 |-> -1]

\* while (fgets(commands[num_commands], MAX_LINE, fp) && num_commands < MAX_RANKS)
\*     { trim(..); if (not empty and not '#') num_commands++; }
\* rest: the unread bytes, ln: the index of the file line being read.
\* src[i] records the file line slot i was last read from; wrote is the
\* string fgets stored at commands[MAX_RANKS] (past the array) when the loop
\* is entered with num_commands = MAX_RANKS and bytes left to read.
RECURSIVE ParseLoop(_, _, _, _, _)
ParseLoop(rest, cmds, src, n, ln) ==
    IF FgetsLen(rest) = 0
    THEN [commands |-> cmds, src |-> src, num |-> n, oob |-> FALSE, wrote |-> <<>>]
    ELSE LET len   == FgetsLen(rest)
             chunk == SubSeq(rest, 1, len)
             rest2 == SubSeq(rest, len + 1, Len(rest))
             ln2   == IF chunk[len] = "\n" THEN ln + 1 ELSE ln
             t     == trim(chunk)
         IN  IF n >= MAX_RANKS
             THEN [commands |-> cmds, src |-> src, num |-> n, oob |-> TRUE, wrote |-> chunk]
             ELSE ParseLoop(rest2, [cmds EXCEPT ![n] = t], [src EXCEPT ![n] = ln],
                            IF t # <<>> /\ t[1] # "#" THEN n + 1 ELSE n, ln2)

Parse(ls) == ParseLoop(FileBytes(ls), EmptyCommands, NoSource, 0, 0)

\* --------------------------------------------------------- child statuses
\* The raw status system() returns, as wait() encodes it.
ExitedWith(c) == c * 256
KilledBy(sig) == sig
\* The statuses explored: success, exit code 7, killed by signal 9.
RawStatuses == { 0, ExitedWith(7), KilledBy(9) }

\* Every status that is not negative taken for a normal exit.
WIFEXITEDUnlessNegative(st) == st >= 0

WIFEXITED(st) == st % 128 = 0
WEXITSTATUS(st) == (st \div 256) % 256

\* The raw status passed on in place of WEXITSTATUS(ret).
ExitCodeRaw(st) == IF WIFEXITED(st) THEN st ELSE -1

\* int exitcode = -1; if (WIFEXITED(ret)) exitcode = WEXITSTATUS(ret);
ExitCodeOf(st) == IF WIFEXITED(st) THEN WEXITSTATUS(st) ELSE -1

\* ------------------------------------------------------------------ state
VARIABLES
    argc,          \* main's argc
    arg,           \* argv[1]
    size,          \* MPI_Comm_size
    fileOpens,     \* whether fopen(arg, "r") succeeds
    roster,        \* the lines of the roster file
    pc,            \* pc[r]: where rank r is in main()
    scriptfile,    \* scriptfile[r]: the resolved script path of rank r
    mycmd,         \* mycmd[r]: the command of rank r
    ret,           \* ret[r]: what system() returned to rank r
    status,        \* status[r]: what main() returned on rank r
    commands,      \* rank 0: commands[0 .. MAX_RANKS-1]
    num_commands,  \* rank 0: num_commands
    src,           \* rank 0: the file line each slot was last read from
    wrote,         \* rank 0: what fgets stored past the end of commands
    sendi,         \* rank 0: i of the send loop
    chan,          \* chan[r]: messages sent to rank r and not yet received
    abortBy,       \* the rank whose MPI_Abort took the group down, -1: none
    abortCode,     \* the error code of that MPI_Abort
    crashed,       \* rank 0 died of an access outside commands
    events         \* what has happened: <<kind, rank>>

vars == << argc, arg, size, fileOpens, roster, pc, scriptfile, mycmd, ret, status,
           commands, num_commands, src, wrote, sendi, chan, abortBy, abortCode,
           crashed, events >>

inputs == << argc, arg, size, fileOpens, roster >>
rank0  == << commands, num_commands, src, wrote, sendi >>

Ranks == 0 .. size - 1

\* argv[1] of a roster run (no '*'), and the patterns explored.
RosterArg == <<"f">>
PatternArgs == { <<"j", "*">>, <<"*", ".", "*">>, <<"l", "o", "n", "g", "*">> }

HasStar(a) == Strchr(a) # 0

Start(n) ==
    /\ size = n
    /\ pc = [r \in 0 .. n - 1 |-> "start"]
    /\ scriptfile = [r \in 0 .. n - 1 |-> <<>>]
    /\ mycmd = [r \in 0 .. n - 1 |-> <<>>]
    /\ ret = [r \in 0 .. n - 1 |-> 0]
    /\ status = [r \in 0 .. n - 1 |-> 0]
    /\ chan = [r \in 0 .. n - 1 |-> <<>>]
    /\ commands = EmptyCommands
    /\ num_commands = 0
    /\ src = NoSource
    /\ wrote = <<>>
    /\ sendi = 1
    /\ abortBy = -1
    /\ abortCode = 0
    /\ crashed = FALSE
    /\ events = {}

\* The runs explored: a wrong argument count, a pattern, a roster file that
\* cannot be opened, and every roster file of Rosters.
Init ==
    /\ \E n \in 1 .. MaxSize : Start(n)
    /\ \/ argc \in {1, 3} /\ arg = RosterArg /\ fileOpens = FALSE /\ roster = <<>>
       \/ argc = 2 /\ arg \in PatternArgs /\ fileOpens = FALSE /\ roster = <<>>
       \/ argc = 2 /\ arg = RosterArg /\ fileOpens = FALSE /\ roster = <<>>
       \/ argc = 2 /\ arg = RosterArg /\ fileOpens = TRUE /\ roster \in Rosters

Log(kind, r) == events' = events \cup { <<kind, r>> }
LogAll(kinds, r) == events' = events \cup { <<k, r>> : k \in kinds }

\* An abort that ends the calling process only.
MPI_AbortSelfOnly(r, code) ==
    /\ abortBy' = r
    /\ abortCode' = code
    /\ pc' = [pc EXCEPT ![r] = "killed"]

\* MPI_Abort(MPI_COMM_WORLD, code) called by rank r: the runtime terminates
\* every process of the group that is still running.
MPI_Abort(r, code) ==
    /\ abortBy' = r
    /\ abortCode' = code
    /\ pc' = [m \in Ranks |-> IF pc[m] = "exited" THEN "exited" ELSE "killed"]

\* Rank 0 dies of a memory fault: the runtime takes the job down.
Crash ==
    /\ crashed' = TRUE
    /\ pc' = [m \in Ranks |-> IF pc[m] = "exited" THEN "exited" ELSE "killed"]

\* The usage message printed without the rank == 0 test.
UsageEveryRankPrints(r) ==
    /\ pc[r] = "start"
    /\ argc # 2
    /\ pc' = [pc EXCEPT ![r] = "exited"]
    /\ status' = [status EXCEPT ![r] = 1]
    /\ events' = events \cup { <<"usage", r>>, <<"finalize", r>> }
    /\ UNCHANGED << inputs, rank0, scriptfile, mycmd, ret, chan, abortBy, abortCode, crashed >>

\* if (argc != 2) { if (rank==0) fprintf(usage); MPI_Finalize(); return 1; }
Usage(r) ==
    /\ pc[r] = "start"
    /\ argc # 2
    /\ pc' = [pc EXCEPT ![r] = "exited"]
    /\ status' = [status EXCEPT ![r] = 1]
    /\ events' = events \cup (IF r = 0 THEN { <<"usage", r>> } ELSE {})
           \cup { <<"finalize", r>> }
    /\ UNCHANGED << inputs, rank0, scriptfile, mycmd, ret, chan, abortBy, abortCode, crashed >>

\* star != NULL: scriptfile = prefix, rank, suffix.
ResolvePattern(r) ==
    /\ pc[r] = "start"
    /\ argc = 2
    /\ HasStar(arg)
    /\ scriptfile' = [scriptfile EXCEPT ![r] = ResolveScript(arg, r)]
    /\ pc' = [pc EXCEPT ![r] = "probe"]
    /\ UNCHANGED << inputs, rank0, mycmd, ret, status, chan, abortBy, abortCode, crashed, events >>

\* if (access(scriptfile, F_OK) == 0) { announce; mycmd = "bash ..."; system(mycmd) ..
\* } else { printf("[INFO] script not found") }
ProbeScript(r) ==
    /\ pc[r] = "probe"
    /\ \E found \in BOOLEAN :
          IF found
          THEN /\ mycmd' = [mycmd EXCEPT ![r] = BashCmd(scriptfile[r])]
               /\ pc' = [pc EXCEPT ![r] = "script"]
               /\ LogAll({"access", "announce", "system"}, r)
          ELSE /\ pc' = [pc EXCEPT ![r] = "finalize"]
               /\ LogAll({"access", "notice"}, r)
               /\ UNCHANGED mycmd
    /\ UNCHANGED << inputs, rank0, scriptfile, ret, status, chan, abortBy, abortCode, crashed >>

\* int ret = system(mycmd) returns (pattern mode).
ScriptReturns(r) ==
    /\ pc[r] = "script"
    /\ \E st \in RawStatuses : ret' = [ret EXCEPT ![r] = st]
    /\ pc' = [pc EXCEPT ![r] = "scriptcheck"]
    /\ UNCHANGED << inputs, rank0, scriptfile, mycmd, status, chan, abortBy, abortCode, crashed, events >>

\* if (ret != 0) { ...; MPI_Abort(MPI_COMM_WORLD, exitcode); } (pattern mode)
ScriptCheck(r) ==
    /\ pc[r] = "scriptcheck"
    /\ IF ret[r] # 0
       THEN /\ MPI_Abort(r, ExitCodeOf(ret[r]))
            /\ Log("abort", r)
       ELSE /\ pc' = [pc EXCEPT ![r] = "finalize"]
            /\ UNCHANGED << abortBy, abortCode, events >>
    /\ UNCHANGED << inputs, rank0, scriptfile, mycmd, ret, status, chan, crashed >>

\* A rank other than 0 in roster mode reaches MPI_Recv and blocks there.
EnterRoster(r) ==
    /\ pc[r] = "start"
    /\ r # 0
    /\ argc = 2
    /\ ~HasStar(arg)
    /\ pc' = [pc EXCEPT ![r] = "recv"]
    /\ Log("mpi_recv", r)
    /\ UNCHANGED << inputs, rank0, scriptfile, mycmd, ret, status, chan, abortBy, abortCode, crashed >>

\* return 1 in place of MPI_Abort: rank 0 leaves alone.
OpenFailedReturns ==
    /\ pc' = [pc EXCEPT ![0] = "exited"]
    /\ status' = [status EXCEPT ![0] = 1]
    /\ Log("fopen", 0)
    /\ UNCHANGED << abortBy, abortCode >>

\* strcpy of the last entry read in place of commands[0].
OwnCommandLast(p) == IF p.num > 0 THEN p.commands[p.num - 1] ELSE <<>>

\* char mycmd[MAX_LINE] = ""; if (num_commands > 0) strcpy(mycmd, commands[0]);
OwnCommand(p) == IF p.num > 0 THEN p.commands[0] ELSE <<>>

\* if (!fp) { perror; fprintf; MPI_Abort(MPI_COMM_WORLD, 1); }
OpenFailed ==
    /\ MPI_Abort(0, 1)
    /\ LogAll({"fopen", "abort"}, 0)
    /\ UNCHANGED status

\* The read step without its fclose(fp): the file is still open when the
\* send loop starts.
ReadRosterLeavesOpen ==
    /\ pc[0] = "start"
    /\ argc = 2
    /\ ~HasStar(arg)
    /\ IF ~fileOpens
       THEN /\ OpenFailed
            /\ UNCHANGED << rank0, mycmd, crashed >>
       ELSE LET p == Parse(roster)
            IN  \/ /\ commands' = p.commands
                   /\ num_commands' = p.num
                   /\ src' = p.src
                   /\ wrote' = p.wrote
                   /\ sendi' = 1
                   /\ mycmd' = [mycmd EXCEPT ![0] = OwnCommand(p)]
                   /\ pc' = [pc EXCEPT ![0] = IF 1 < size THEN "send" ELSE "run"]
                   /\ events' = events \cup { <<"fopen", 0>> }
                          \cup (IF p.num > size THEN { <<"warn", 0>> } ELSE {})
                   /\ UNCHANGED << abortBy, abortCode, crashed, status >>
                \/ /\ p.oob
                   /\ Crash
                   /\ Log("fopen", 0)
                   /\ UNCHANGED << rank0, mycmd, abortBy, abortCode, status >>
    /\ UNCHANGED << inputs, scriptfile, ret, chan >>

\* Rank 0: fopen (MPI_Abort(.., 1) when it fails), the fgets loop, fclose,
\* strcpy(mycmd, commands[0]) when num_commands > 0, the warning when
\* num_commands > size.  A store past the end of commands either goes
\* unnoticed or kills the process.
ReadRoster ==
    /\ pc[0] = "start"
    /\ argc = 2
    /\ ~HasStar(arg)
    /\ IF ~fileOpens
       THEN /\ OpenFailed
            /\ UNCHANGED << rank0, mycmd, crashed >>
       ELSE LET p == Parse(roster)
            IN  \/ /\ commands' = p.commands
                   /\ num_commands' = p.num
                   /\ src' = p.src
                   /\ wrote' = p.wrote
                   /\ sendi' = 1
                   /\ mycmd' = [mycmd EXCEPT ![0] = OwnCommand(p)]
                   /\ pc' = [pc EXCEPT ![0] = IF 1 < size THEN "send" ELSE "run"]
                   /\ events' = events \cup { <<"fopen", 0>>, <<"fclose", 0>> }
                          \cup (IF p.num > size THEN { <<"warn", 0>> } ELSE {})
                   /\ UNCHANGED << abortBy, abortCode, crashed, status >>
                \/ /\ p.oob
                   /\ Crash
                   /\ Log("fopen", 0)
                   /\ UNCHANGED << rank0, mycmd, abortBy, abortCode, status >>
    /\ UNCHANGED << inputs, scriptfile, ret, chan >>

\* What a read of commands[i] with i >= MAX_RANKS can find: nothing, bytes of
\* something else, or the line fgets stored just past the array.
StrayValues(i) ==
    { <<>>, <<"z">> } \cup (IF i = MAX_RANKS /\ wrote # <<>> THEN { wrote } ELSE {})

\* A send loop left after its first iteration.
DeliverAndLeave(buf) ==
    /\ chan' = [chan EXCEPT ![sendi] = Append(@, buf)]
    /\ sendi' = sendi + 1
    /\ pc' = [pc EXCEPT ![0] = "run"]
    /\ Log("send", sendi)
    /\ UNCHANGED << commands, num_commands, src, wrote, abortBy, abortCode, crashed >>

\* MPI_Send(buf, MAX_LINE, MPI_CHAR, sendi, ...) and i++ of the send loop.
Deliver(buf) ==
    /\ chan' = [chan EXCEPT ![sendi] = Append(@, buf)]
    /\ sendi' = sendi + 1
    /\ pc' = [pc EXCEPT ![0] = IF sendi + 1 < size THEN "send" ELSE "run"]
    /\ Log("send", sendi)
    /\ UNCHANGED << commands, num_commands, src, wrote, abortBy, abortCode, crashed >>

\* for (i = 1; i < size; i++) MPI_Send(commands[i], ...): one iteration.
\* commands[i] with i >= MAX_RANKS is outside the array.
Send ==
    /\ pc[0] = "send"
    /\ \/ /\ sendi < MAX_RANKS
          /\ Deliver(commands[sendi])
       \/ /\ sendi >= MAX_RANKS
          /\ \E v \in StrayValues(sendi) : Deliver(v)
       \/ /\ sendi >= MAX_RANKS
          /\ Crash
          /\ UNCHANGED << rank0, chan, abortBy, abortCode, events >>
    /\ UNCHANGED << inputs, scriptfile, mycmd, ret, status >>

\* MPI_Recv(mycmd, MAX_LINE, MPI_CHAR, 0, ...) completes on rank r.
Recv(r) ==
    /\ pc[r] = "recv"
    /\ chan[r] # <<>>
    /\ mycmd' = [mycmd EXCEPT ![r] = Head(chan[r])]
    /\ chan' = [chan EXCEPT ![r] = Tail(@)]
    /\ pc' = [pc EXCEPT ![r] = "run"]
    /\ Log("recv", r)
    /\ UNCHANGED << inputs, rank0, scriptfile, ret, status, abortBy, abortCode, crashed >>

\* The execution step without the test of mycmd[0].
RunCommandUntested(r) ==
    /\ pc[r] = "run"
    /\ pc' = [pc EXCEPT ![r] = "command"]
    /\ LogAll({"announce", "system"}, r)
    /\ UNCHANGED << inputs, rank0, scriptfile, mycmd, ret, status, chan, abortBy, abortCode, crashed >>

\* if (mycmd[0] != '\0') { announce; system(mycmd) ... }
RunCommand(r) ==
    /\ pc[r] = "run"
    /\ IF mycmd[r] # <<>>
       THEN /\ pc' = [pc EXCEPT ![r] = "command"]
            /\ LogAll({"announce", "system"}, r)
       ELSE /\ pc' = [pc EXCEPT ![r] = "finalize"]
            /\ UNCHANGED events
    /\ UNCHANGED << inputs, rank0, scriptfile, mycmd, ret, status, chan, abortBy, abortCode, crashed >>

\* int ret = system(mycmd) returns (roster mode).
CommandReturns(r) ==
    /\ pc[r] = "command"
    /\ \E st \in RawStatuses : ret' = [ret EXCEPT ![r] = st]
    /\ pc' = [pc EXCEPT ![r] = "commandcheck"]
    /\ UNCHANGED << inputs, rank0, scriptfile, mycmd, status, chan, abortBy, abortCode, crashed, events >>

\* if (ret != 0) { ...; MPI_Abort(MPI_COMM_WORLD, exitcode); } (roster mode)
CommandCheck(r) ==
    /\ pc[r] = "commandcheck"
    /\ IF ret[r] # 0
       THEN /\ MPI_Abort(r, ExitCodeOf(ret[r]))
            /\ Log("abort", r)
       ELSE /\ pc' = [pc EXCEPT ![r] = "finalize"]
            /\ UNCHANGED << abortBy, abortCode, events >>
    /\ UNCHANGED << inputs, rank0, scriptfile, mycmd, ret, status, chan, crashed >>

\* MPI_Finalize(); return 0;
Finalize(r) ==
    /\ pc[r] = "finalize"
    /\ pc' = [pc EXCEPT ![r] = "exited"]
    /\ status' = [status EXCEPT ![r] = 0]
    /\ Log("finalize", r)
    /\ UNCHANGED << inputs, rank0, scriptfile, mycmd, ret, chan, abortBy, abortCode, crashed >>

Next ==
    \/ \E r \in Ranks : Usage(r)
    \/ \E r \in Ranks : ResolvePattern(r)
    \/ \E r \in Ranks : ProbeScript(r)
    \/ \E r \in Ranks : ScriptReturns(r)
    \/ \E r \in Ranks : ScriptCheck(r)
    \/ \E r \in Ranks : EnterRoster(r)
    \/ ReadRoster
    \/ Send
    \/ \E r \in Ranks : Recv(r)
    \/ \E r \in Ranks : RunCommand(r)
    \/ \E r \in Ranks : CommandReturns(r)
    \/ \E r \in Ranks : CommandCheck(r)
    \/ \E r \in Ranks : Finalize(r)

Spec == Init /\ [][Next]_vars

\* ------------------------------------------- pattern resolution on its own
\* A group of ResolveSize ranks given a pattern; only the resolution step.
ResolveArgs ==
    { <<"j", "*">>,
      <<"*">>,
      <<"*", ".", "*">>,
      <<"j", "o", "b", "*", ".", "*", "s">>,
      <<"w", "g", "r", "i", "b", "*">>,
      <<"j", "o", "b", "_", "*", ".", "s">> }

InitResolve ==
    /\ Start(ResolveSize)
    /\ argc = 2
    /\ arg \in ResolveArgs
    /\ fileOpens = FALSE
    /\ roster = <<>>

NextResolve == \E r \in Ranks : ResolvePattern(r)

SpecResolve == InitResolve /\ [][NextResolve]_vars

\* ------------------------------------------------------ runs under fairness
\* The runs whose progress is examined: every group size, a wrong argument
\* count, a pattern, a roster that cannot be opened, and the rosters of at
\* most MAX_RANKS plain commands.
FairRosters == SeqsUpTo({ <<"a">> }, MAX_RANKS)

InitFair ==
    /\ \E n \in 1 .. MaxSize : Start(n)
    /\ \/ argc = 1 /\ arg = RosterArg /\ fileOpens = FALSE /\ roster = <<>>
       \/ argc = 2 /\ arg = <<"j", "*">> /\ fileOpens = FALSE /\ roster = <<>>
       \/ argc = 2 /\ arg = RosterArg /\ fileOpens = FALSE /\ roster = <<>>
       \/ argc = 2 /\ arg = RosterArg /\ fileOpens = TRUE /\ roster \in FairRosters

\* The steps of rank r that depend on nothing but rank r itself and, for the
\* receive, on a message being there.  system() returns: every subprocess is
\* assumed to terminate.
OwnStep(r) ==
    \/ Usage(r)
    \/ ResolvePattern(r)
    \/ ProbeScript(r)
    \/ ScriptReturns(r)
    \/ ScriptCheck(r)
    \/ EnterRoster(r)
    \/ Recv(r)
    \/ RunCommand(r)
    \/ CommandReturns(r)
    \/ CommandCheck(r)
    \/ Finalize(r)

\* A send whose receiver has posted its receive: MPI completes it, whether
\* the message went eagerly or by rendezvous.
MatchedSend ==
    /\ pc[0] = "send"
    /\ pc[sendi] = "recv"
    /\ Send

\* Every process keeps running, and MPI completes a matched send.
Fairness ==
    /\ \A r \in 0 .. MaxSize - 1 : WF_vars(r \in Ranks /\ OwnStep(r))
    /\ WF_vars(ReadRoster)
    /\ WF_vars(MatchedSend)

SpecFair == InitFair /\ [][Next]_vars /\ Fairness

\* ------------------------------------------ classification of child statuses
\* A wider choice of what system() returns: success, exit codes 1, 7, 127
\* (the shell could not run the command) and 255, death by signal 9, death by
\* signal 11 with a core dump, and -1 (no child process could be created).
CoreDumped(sig) == sig + 128
AllStatuses ==
    { 0, ExitedWith(1), ExitedWith(7), ExitedWith(127), ExitedWith(255),
      KilledBy(9), CoreDumped(KilledBy(11)), -1 }

\* int ret = system(mycmd) returns (pattern mode), any status of AllStatuses.
ScriptReturnsAny(r) ==
    /\ pc[r] = "script"
    /\ \E st \in AllStatuses : ret' = [ret EXCEPT ![r] = st]
    /\ pc' = [pc EXCEPT ![r] = "scriptcheck"]
    /\ UNCHANGED << inputs, rank0, scriptfile, mycmd, status, chan, abortBy, abortCode, crashed, events >>

\* int ret = system(mycmd) returns (roster mode), any status of AllStatuses.
CommandReturnsAny(r) ==
    /\ pc[r] = "command"
    /\ \E st \in AllStatuses : ret' = [ret EXCEPT ![r] = st]
    /\ pc' = [pc EXCEPT ![r] = "commandcheck"]
    /\ UNCHANGED << inputs, rank0, scriptfile, mycmd, status, chan, abortBy, abortCode, crashed, events >>

\* Groups of one and two ranks, a pattern or a readable roster of at most two
\* plain commands.
InitClassify ==
    /\ \E n \in 1 .. MAX_RANKS : Start(n)
    /\ argc = 2
    /\ \/ arg \in PatternArgs /\ fileOpens = FALSE /\ roster = <<>>
       \/ arg = RosterArg /\ fileOpens = TRUE /\ roster \in SeqsUpTo({ <<"a">> }, MAX_RANKS)

NextClassify ==
    \/ \E r \in Ranks : ResolvePattern(r)
    \/ \E r \in Ranks : ProbeScript(r)
    \/ \E r \in Ranks : ScriptReturnsAny(r)
    \/ \E r \in Ranks : ScriptCheck(r)
    \/ \E r \in Ranks : EnterRoster(r)
    \/ ReadRoster
    \/ Send
    \/ \E r \in Ranks : Recv(r)
    \/ \E r \in Ranks : RunCommand(r)
    \/ \E r \in Ranks : CommandReturnsAny(r)
    \/ \E r \in Ranks : CommandCheck(r)
    \/ \E r \in Ranks : Finalize(r)

SpecClassify == InitClassify /\ [][NextClassify]_vars

\* ===================================================================== claims
\* What the claims speak of, stated without the program's own operators.
CharsOf(s) == { s[i] : i \in 1 .. Len(s) }
IsRosterRun == argc = 2 /\ "*" \notin CharsOf(arg)
IsPatternRun == argc = 2 /\ "*" \in CharsOf(arg)

SetMin(S) == CHOOSE x \in S : \A y \in S : x <= y
SetMax(S) == CHOOSE x \in S : \A y \in S : y <= x

\* A line without its leading and trailing space, tab, CR and LF.
Content(line) ==
    LET inked == { i \in 1 .. Len(line) : line[i] \notin {" ", "\t", "\r", "\n"} }
    IN  IF inked = {} THEN <<>> ELSE SubSeq(line, SetMin(inked), SetMax(inked))

\* A qualifying line: not blank, first non-white-space character not '#'.
Qualifies(line) == Content(line) # <<>> /\ Content(line)[1] # "#"

\* The qualifying lines of the roster file, in file order, trimmed.
Entries ==
    LET q == SelectSeq(roster, Qualifies)
    IN  [i \in 1 .. Len(q) |-> Content(q[i])]

\* Rank r holds its Assignment: rank 0 after reading the file, the others
\* after their receive.
HoldsAssignment(r) ==
    IF r = 0 THEN <<"fclose", 0>> \in events ELSE <<"recv", r>> \in events

Launched(r) == <<"system", r>> \in events
AllGone == \A r \in Ranks : pc[r] \in {"exited", "killed"}
Aborted == abortBy # -1

\* The child of rank m ended with a non-zero or abnormal status.
ChildFailed(m) == Launched(m) /\ ret[m] # 0
\* The code of a failed child: its exit code, -1 for abnormal termination.
ChildCode(st) ==
    IF st > 0 /\ st % 256 = 0 /\ st \div 256 < 256 THEN st \div 256 ELSE -1

\* The leading bytes of an entry that fit the line buffer (the entry itself
\* when it is shorter than MAX_LINE).
Fitted(e) == [i \in 1 .. (IF Len(e) < MAX_LINE THEN Len(e) ELSE MAX_LINE - 1) |-> e[i]]

\* Every line of the roster file, newline included, fits the line buffer.
NoLongLine == \A i \in 1 .. Len(roster) : Len(roster[i]) + 1 < MAX_LINE

\* C1: roster mode: every rank i below min(k, size) ends up with exactly the
\* i-th qualifying line of the file, trimmed (rank 0 locally, the others from
\* the message they receive).  A line longer than the line buffer is allowed
\* to arrive cut to its leading bytes.
C1_EntryToRank ==
    (IsRosterRun /\ fileOpens) =>
        LET E == Entries
        IN  \A r \in Ranks :
                (r < Len(E) /\ HoldsAssignment(r)) => mycmd[r] = Fitted(E[r + 1])

\* C2: roster mode with k <= size qualifying lines: every rank i with
\* k <= i < size receives the empty string and launches no subprocess.
\* Stated for the roster files whose lines all fit the line buffer.
C2_NoEntryNoTask ==
    (IsRosterRun /\ fileOpens /\ NoLongLine) =>
        LET k == Len(Entries)
        IN  k <= size =>
                \A r \in Ranks :
                    r >= k =>
                        /\ HoldsAssignment(r) => mycmd[r] = <<>>
                        /\ ~Launched(r)

\* C3: roster mode: a comment line or a blank line never becomes the Assignment
\* of any rank: it is neither kept by rank 0, nor sent, nor executed.
\* Stated for the roster files whose lines all fit the line buffer.
C3_SkippedNeverAssigned ==
    (IsRosterRun /\ NoLongLine) =>
        \A i \in 1 .. Len(roster) :
            (~Qualifies(roster[i]) /\ Content(roster[i]) # <<>>) =>
                /\ \A r \in Ranks : HoldsAssignment(r) => mycmd[r] # Content(roster[i])
                /\ \A r \in Ranks : \A k \in 1 .. Len(chan[r]) : chan[r][k] # Content(roster[i])

\* C4: roster mode with k > size qualifying lines: the qualifying lines at
\* positions size .. k-1 are never sent to a rank nor executed by one, in
\* full or cut to the line buffer (a line whose text also stands among the
\* first size entries is not told apart).
C4_ExcessNeverDispatched ==
    (IsRosterRun /\ fileOpens) =>
        LET E == Entries
            given == { mycmd[r] : r \in Ranks } \cup UNION { CharsOf(chan[r]) : r \in Ranks }
        IN  Len(E) > size =>
                \A j \in size + 1 .. Len(E) :
                    (\A i \in 1 .. size : E[i] # E[j]) =>
                        (E[j] \notin given /\ Fitted(E[j]) \notin given)

C4_Witness ==
    /\ IsRosterRun
    /\ size = 2
    /\ AllGone
    /\ \A r \in Ranks : Launched(r)
    /\ Len(Entries) = 3
    /\ Entries[3] \notin { Entries[1], Entries[2] }

\* The group's reported termination status is 0.
ReportsZero == ~crashed /\ ~Aborted /\ \A r \in Ranks : status[r] = 0

\* C5: with a valid single argument, once the group has terminated: the
\* reported status is 0 exactly when the roster could be opened (roster mode)
\* and no child failed; otherwise it is 1 (roster unreadable) or the code of a
\* member whose child failed.
C5_ReportedStatus ==
    (argc = 2 /\ AllGone) =>
        LET ok == (IsRosterRun => fileOpens) /\ \A m \in Ranks : ~ChildFailed(m)
        IN  /\ ReportsZero <=> ok
            /\ ~ok => /\ ~crashed
                      /\ Aborted
                      /\ \/ IsRosterRun /\ ~fileOpens /\ abortCode = 1
                         \/ \E m \in Ranks : ChildFailed(m) /\ abortCode = ChildCode(ret[m])

\* Rank 0's child exited normally with the non-zero code c.
Rank0ExitedWith(c) == Launched(0) /\ c \in 1 .. 255 /\ ret[0] = c * 256
\* The only c for which Rank0ExitedWith(c) can hold.
Rank0Code == ret[0] \div 256

\* C6 as stated: roster mode: when rank 0's child exits normally with a non-zero
\* code c, the group terminates with reported code c, whatever the other ranks
\* do.
C6_Rank0CodeAlwaysWins ==
    (IsRosterRun /\ AllGone) =>
        (Rank0ExitedWith(Rank0Code) => (Aborted /\ abortCode = Rank0Code))

\* C6 amended: roster mode: when rank 0's child exits normally with a non-zero
\* code c, the group terminates by an abort with a non-zero code: c when the
\* abort is rank 0's, and otherwise the code of the rank whose own failed
\* child made it abort first.
C6_Rank0CodeUnlessOutrun ==
    (IsRosterRun /\ AllGone) =>
        (Rank0ExitedWith(Rank0Code) =>
            /\ Aborted
            /\ ~crashed
            /\ abortCode # 0
            /\ abortBy = 0 => abortCode = Rank0Code
            /\ abortBy # 0 => ChildFailed(abortBy) /\ abortCode = ChildCode(ret[abortBy]))

C6_Witness ==
    /\ IsRosterRun
    /\ AllGone
    /\ Rank0ExitedWith(7)
    /\ abortBy = 0
    /\ \E m \in Ranks : m # 0 /\ ChildFailed(m) /\ ChildCode(ret[m]) # 7

SystemCalls(ev) == { e \in ev : e[1] = "system" }

\* C7: once a member triggers the group-wide abort, every member is terminated,
\* whatever it was doing, and no member launches a subprocess afterwards.
C7_AbortTerminatesAll ==
    [][ /\ Aborted' => \A r \in Ranks : pc'[r] \in {"exited", "killed"}
        /\ Aborted => SystemCalls(events') = SystemCalls(events) ]_vars

C7_Witness ==
    /\ Aborted
    /\ \E m \in Ranks : m # abortBy /\ Launched(m) /\ pc[m] = "killed"
    /\ \E m \in Ranks : m # abortBy /\ ~Launched(m) /\ pc[m] = "killed"

\* C8: roster mode, roster cannot be opened: rank 0 aborts the group with code
\* 1, no subprocess is launched, no message is sent, and no other member stays
\* blocked in its receive: once rank 0 has tried to open the file every
\* member is terminated.
C8_UnreadableRoster ==
    (IsRosterRun /\ ~fileOpens) =>
        /\ \A r \in Ranks : ~Launched(r) /\ <<"send", r>> \notin events /\ chan[r] = <<>>
        /\ \/ pc[0] = "start" /\ ~Aborted
           \/ /\ abortBy = 0
              /\ abortCode = 1
              /\ \A r \in Ranks : pc[r] = "killed"

C8_Witness ==
    /\ IsRosterRun
    /\ ~fileOpens
    /\ abortBy = 0
    /\ abortCode = 1
    /\ \E r \in Ranks : <<"mpi_recv", r>> \in events /\ pc[r] = "killed"
    /\ \E r \in Ranks : r # 0 /\ <<"mpi_recv", r>> \notin events /\ pc[r] = "killed"

\* C9: wrong argument count: every member leaves through MPI_Finalize and
\* returns 1, only rank 0 prints the usage message, and nobody opens the
\* roster, probes a script, sends, receives, launches or aborts.
C9_UsageError ==
    argc # 2 =>
        /\ \A r \in Ranks :
              \/ pc[r] = "start"
              \/ pc[r] = "exited" /\ status[r] = 1 /\ <<"finalize", r>> \in events
        /\ \A e \in events : e[1] = "finalize" \/ e = <<"usage", 0>>
        /\ pc[0] = "exited" => <<"usage", 0>> \in events
        /\ ~Aborted
        /\ ~crashed
        /\ \A r \in Ranks : chan[r] = <<>>

C9_Witness ==
    /\ argc = 3
    /\ size > 1
    /\ \A r \in Ranks : pc[r] = "exited" /\ status[r] = 1
    /\ <<"usage", 0>> \in events

\* ---------------------------------------------------------------- C10
Digits == <<"0", "1", "2", "3", "4", "5", "6", "7", "8", "9">>
DigitValue(ch) == (CHOOSE i \in 1 .. 10 : Digits[i] = ch) - 1

RECURSIVE NumberOf(_)
NumberOf(d) ==
    IF Len(d) = 0 THEN 0
    ELSE 10 * NumberOf(SubSeq(d, 1, Len(d) - 1)) + DigitValue(d[Len(d)])

\* The digit strings of one, two and three digits without a leading zero.
DecimalStrings ==
    { <<Digits[i]>> : i \in 1 .. 10 }
        \cup { <<Digits[i], Digits[j]>> : i \in 2 .. 10, j \in 1 .. 10 }
        \cup { <<Digits[i], Digits[j], Digits[k]>> : i \in 2 .. 10, j \in 1 .. 10, k \in 1 .. 10 }

\* The decimal representation of every rank of the resolution runs.
DecimalOf == [n \in 0 .. ResolveSize |-> CHOOSE d \in DecimalStrings : NumberOf(d) = n]

\* The position of the first '*' of the argument.
FirstStar == SetMin({ i \in 1 .. Len(arg) : arg[i] = "*" })

\* prefix + decimal rank + suffix around the first '*'.
Substituted(r) ==
    SubSeq(arg, 1, FirstStar - 1) \o DecimalOf[r] \o SubSeq(arg, FirstStar + 1, Len(arg))

Resolved(r) == pc[r] = "probe"

\* C10 as stated: pattern mode: the resolved path of every rank r is exactly
\* (text before the first '*') + (decimal r) + (text after the first '*').
C10_ExactSubstitution ==
    IsPatternRun =>
        \A r \in Ranks : Resolved(r) => scriptfile[r] = Substituted(r)

\* C10 amended: pattern mode: the resolved path of every rank r is
\* (text before the first '*') + (decimal r) + (text after the first '*'),
\* cut to its first MAX_LINE - 1 characters when it is longer than that; a
\* further '*' stays in the suffix unchanged.
C10_SubstitutionThatFits ==
    IsPatternRun =>
        \A r \in Ranks : Resolved(r) => scriptfile[r] = Fitted(Substituted(r))

C10_Witness ==
    /\ IsPatternRun
    /\ \E r \in Ranks : /\ Resolved(r)
                        /\ r >= 10
                        /\ "*" \in CharsOf(scriptfile[r])
                        /\ Len(Substituted(r)) >= MAX_LINE
    /\ \E r \in Ranks : /\ Resolved(r)
                        /\ "*" \in CharsOf(scriptfile[r])
                        /\ scriptfile[r] = Substituted(r)

\* ---------------------------------------------------------------- C11
Noticed(r) == <<"notice", r>> \in events
BashOf(path) == <<"b", "a", "s", "h", " ">> \o path

\* C11: pattern mode: a member whose resolved path does not exist prints the
\* notice, launches no subprocess and triggers no abort; once the group has
\* terminated without a failed child the reported status is 0; a member whose
\* path exists executes "bash " followed by its own resolved path.
C11_PatternMember ==
    IsPatternRun =>
        /\ \A r \in Ranks :
              (<<"access", r>> \in events /\ ~Launched(r)) =>
                  /\ Noticed(r)
                  /\ <<"abort", r>> \notin events
                  /\ abortBy # r
        /\ \A r \in Ranks : Noticed(r) => ~Launched(r)
        /\ (AllGone /\ \A m \in Ranks : ~ChildFailed(m)) => ReportsZero
        /\ \A r \in Ranks : Launched(r) => mycmd[r] = BashOf(scriptfile[r])

\* C11 wherever the command fits its buffer: "bash " and the resolved path
\* together are shorter than MAX_LINE.
PatternMemberWithinBuffer ==
    (\A r \in Ranks : Len(BashOf(scriptfile[r])) < MAX_LINE) => C11_PatternMember

\* ---------------------------------------------------------------- C12
\* Rank r launches its subprocess in this step.
Launches(r) == <<"system", r>> \in events' /\ <<"system", r>> \notin events
\* Rank 0 sends to rank r in this step.
SendsTo(r) == <<"send", r>> \in events' /\ <<"send", r>> \notin events

\* C12: roster mode, every step: a send happens only after rank 0 has closed
\* the roster file; a rank other than 0 launches its subprocess only after
\* its receive has completed; a rank launches only when it holds its
\* Assignment, and its Assignment never changes once it has launched.
C12_Ordering ==
    [][ IsRosterRun =>
            \A r \in Ranks :
                /\ SendsTo(r) => <<"fclose", 0>> \in events
                /\ (Launches(r) /\ r # 0) => <<"recv", r>> \in events
                /\ Launches(r) => HoldsAssignment(r)
                /\ Launched(r) => mycmd'[r] = mycmd[r] ]_vars

C12_Witness ==
    /\ IsRosterRun
    /\ size = MaxSize
    /\ \A r \in Ranks : Launched(r) /\ HoldsAssignment(r)
    /\ \A r \in Ranks \ {0} : <<"send", r>> \in events

\* ---------------------------------------------------------------- C13
Received(r) == <<"recv", r>> \in events
\* The messages rank 0 has sent to rank r: those in flight and the one taken.
SentTo(r) == Len(chan[r]) + (IF Received(r) THEN 1 ELSE 0)
\* Rank 0 has left its send loop alive.
PastSendLoop == pc[0] \in {"run", "command", "commandcheck", "finalize", "exited"}
\* The roster entry rank 0 holds for rank r: slot r of the roster array, and
\* nothing for a rank the array has no slot for.
AddressedTo(r) == IF r < MAX_RANKS THEN commands[r] ELSE <<>>

\* C13: roster mode, readable roster: rank 0 sends nothing to itself and at
\* most one message to every other rank, exactly one once it has left the
\* send loop; every other rank receives once; what is in flight to rank r
\* and what rank r has received is the entry rank 0 holds for rank r.
C13_OneMessageEach ==
    (IsRosterRun /\ fileOpens) =>
        /\ chan[0] = <<>>
        /\ <<"send", 0>> \notin events
        /\ ~Received(0)
        /\ \A r \in Ranks \ {0} :
              /\ SentTo(r) <= 1
              /\ <<"send", r>> \in events <=> SentTo(r) = 1
              /\ PastSendLoop => SentTo(r) = 1
              /\ Received(r) => pc[r] \notin {"start", "recv"}
              /\ Received(r) => mycmd[r] = AddressedTo(r)
              /\ \A k \in 1 .. Len(chan[r]) : chan[r][k] = AddressedTo(r)

\* C13 for the groups that fit the roster array.
OneMessageEachWithinArray == size <= MAX_RANKS => C13_OneMessageEach

\* ---------------------------------------------------------------- C14
\* Rank r has called MPI_Abort.
Aborts(r) == <<"abort", r>> \in events
\* Rank r has looked at the status of its child and gone on to the teardown.
WentOn(r) == Launched(r) /\ pc[r] \in {"finalize", "exited"}
\* A raw status of a child that exited normally: exit code 0 .. 255 in the
\* second byte, nothing else set.
NormalExit(st) == \E c \in 0 .. 255 : st = 256 * c

\* C14: both modes, readable roster: a rank calls MPI_Abort only with a
\* non-zero status of its own child and never goes on to the teardown with
\* one; the code it passes is the child's exit code when the child exited
\* normally, and -1 when the child was killed by a signal or system() could
\* not create it.
C14_Classification ==
    \A r \in Ranks :
        /\ Aborts(r) =>
              /\ Launched(r)
              /\ ret[r] # 0
              /\ abortBy = r
              /\ NormalExit(ret[r]) => abortCode = ret[r] \div 256
              /\ ~NormalExit(ret[r]) => abortCode = -1
        /\ WentOn(r) => ret[r] = 0
        /\ (pc[r] \in {"scriptcheck", "commandcheck"} /\ ret[r] = 0) => ~Aborts(r)

C14_Witness ==
    /\ size = 2
    /\ WentOn(0)
    /\ Aborts(1)
    /\ ret[1] = -1
    /\ abortCode = -1

\* ---------------------------------------------------------------- C15
\* What rank r itself has done of an execution step.
OwnSteps(ev, r) == { e \in ev : e[2] = r /\ e[1] \in {"announce", "system", "abort"} }
\* Rank r is at its execution step with an empty Assignment.
AtRunEmpty(r) == pc[r] = "run" /\ mycmd[r] = <<>>
\* No rank with an empty command has announced or launched anything.
EmptyNeverRuns ==
    \A r \in Ranks : mycmd[r] = <<>> => (<<"announce", r>> \notin events /\ ~Launched(r))

RosterRead == <<"fclose", 0>> \in events
\* The slots of the roster array that hold entries.
EntrySlots == 0 .. num_commands - 1
\* The entries read from file line ln (counted from 0).
SlotsOfLine(ln) == { i \in EntrySlots : src[i] = ln }

\* C16: roster mode, after the read: every line of the file, however long,
\* has become at most one entry; the entry of a qualifying line is the line
\* trimmed and cut to the line buffer; and entry i is the i-th qualifying
\* line, so that what follows a long line keeps its rank.
C16_LongLineOneEntry ==
    (IsRosterRun /\ RosterRead) =>
        LET E == Entries
        IN  /\ \A ln \in 0 .. Len(roster) - 1 :
                  /\ Cardinality(SlotsOfLine(ln)) <= 1
                  /\ \A i \in SlotsOfLine(ln) : commands[i] = Fitted(Content(roster[ln + 1]))
            /\ \A i \in EntrySlots : i < Len(E) /\ commands[i] = Fitted(E[i + 1])

\* C16 for the roster files whose lines all fit the line buffer.
OneEntryPerFittingLine == NoLongLine => C16_LongLineOneEntry

\* ---------------------------------------------------------------- C17
Warned == <<"warn", 0>> \in events

\* C17: roster mode, after the read of a file whose lines fit the line
\* buffer: rank 0 has printed the warning exactly when the file has more
\* qualifying lines than the group has ranks; and rank 0 calls MPI_Abort only
\* for a child of its own that failed.
C17_WarningIffExcess ==
    (IsRosterRun /\ RosterRead /\ NoLongLine) =>
        /\ Warned <=> Len(Entries) > size
        /\ Aborts(0) => ChildFailed(0)

\* C17 for the groups smaller than the roster array.
WarningIffExcessBelowCapacity == size < MAX_RANKS => C17_WarningIffExcess

\* ---------------------------------------------------------------- C18
\* The steps of a rank in pattern mode.
PatternStep(r) ==
    \/ ResolvePattern(r)
    \/ ProbeScript(r)
    \/ ScriptReturns(r)
    \/ ScriptCheck(r)
    \/ Finalize(r)

\* Pattern mode: every rank still running can take its next step, whatever
\* the other ranks are doing.
NobodyWaits ==
    IsPatternRun =>
        \A r \in Ranks : pc[r] \notin {"exited", "killed"} => ENABLED PatternStep(r)

\* Rank r (if the group has one) is blocked in its receive.
InRecv(r) == r \in Ranks /\ pc[r] = "recv"
OutOfRecv(r) == r \in Ranks /\ pc[r] # "recv"

\* Every send completes, no rank stays in its receive, pattern mode has no
\* waiting.
NoBlocking ==
    /\ \A r \in 1 .. MaxSize - 1 : InRecv(r) ~> OutOfRecv(r)
    /\ (pc[0] = "send") ~> (pc[0] # "send")
    /\ []NobodyWaits

\* The group has terminated through MPI_Finalize on every rank or through an
\* MPI_Abort.
GoneByTeardownOrAbort == AllGone /\ (Aborted \/ \A r \in Ranks : pc[r] = "exited")

\* C18: with every subprocess terminating, every rank eventually terminates,
\* by its normal teardown or by a group-wide abort; every send of rank 0
\* eventually completes and no rank stays blocked in its receive; in pattern
\* mode no rank ever waits for another.
C18_Termination == <>GoneByTeardownOrAbort /\ NoBlocking

\* Every run terminates and nothing blocks, a memory fault of rank 0 being
\* one more way for the group to end.
TerminatesAnyway == <>AllGone /\ NoBlocking

\* ---------------------------------------------------------------- C19
\* Rank 0 has sent to every other rank of the group.
AllSent == \A r \in Ranks \ {0} : <<"send", r>> \in events

\* C19: roster mode: rank 0 launches its own command only when it has sent
\* to every rank 1 .. size-1, and sends nothing once it has launched; so when
\* rank 0 aborts for its failed child every other rank has been sent its
\* Assignment.
C19_OwnTaskAfterSends ==
    [][ IsRosterRun =>
            /\ Launches(0) => (AllSent /\ sendi >= size)
            /\ Launched(0) => (AllSent /\ \A r \in Ranks : ~SendsTo(r) /\ Len(chan'[r]) <= Len(chan[r]))
            /\ (<<"abort", 0>> \in events' /\ fileOpens) => AllSent ]_vars

C19_Witness ==
    /\ IsRosterRun
    /\ size = MaxSize
    /\ Aborts(0)
    /\ ChildFailed(0)
    /\ AllSent
    /\ \E r \in Ranks : r # 0 /\ ~Received(r) /\ chan[r] # <<>>

\* ---------------------------------------------------------------- C20
\* C20: every access to the roster array is to a slot 0 .. MAX_RANKS-1:
\* fgets has stored nothing past the array, the send loop has read and is
\* about to read no slot past it, and rank 0 has not died of such an access.
C20_SlotsInBounds ==
    /\ wrote = <<>>
    /\ ~crashed
    /\ \A r \in Ranks : <<"send", r>> \in events => r < MAX_RANKS
    /\ pc[0] = "send" => sendi < MAX_RANKS

\* C20 for the groups that fit the roster array and the roster files that
\* end with their MAX_RANKS-th entry or before.
SlotsInBoundsWithinCapacity ==
    (size <= MAX_RANKS /\ ~Parse(roster).oob) => C20_SlotsInBounds

\* ------------------------------------------------- reach of the buffer faults
\* Within the buffers (no line fills the line buffer, fewer entries than
\* commands[] has slots, no rank beyond its slots) the entries reach their
\* ranks as C1 says.
EntryToRankWithinBuffers ==
    (NoLongLine /\ Len(Entries) < MAX_RANKS /\ size <= MAX_RANKS) => C1_EntryToRank

\* Unless rank 0 dies of an access outside commands[], the reported status is
\* as C5 says.
ReportedStatusUnlessCrashed == ~crashed => C5_ReportedStatus

====
